---- MODULE Spec2Model ----
(***************************************************************************)
(* SmartShop.ai: the negotiation engine (src/app/barter.py) driven by the  *)
(* /negotiate handler of src/main.py.                                      *)
(*                                                                         *)
(* Money is counted in cents (1 = 0.01), so a price of 100.0 is 10000.     *)
(* The thresholds 0.90, 0.85, ... are percentages (90, 85, ...), and       *)
(*     offered_price >= product.price * 0.90                               *)
(* is the integer comparison  offered_price * 100 >= price * 90.           *)
(* On the prices and offers enumerated below the floating-point            *)
(* comparisons, round(x, 2) and the ".2f" formats of the source give the   *)
(* same results as this exact arithmetic (no value lies on a rounding tie).*)
(*                                                                         *)
(* An Optional field that is None is a record without that field; a dict   *)
(* is a function whose DOMAIN is its key set.                              *)
(***************************************************************************)
EXTENDS Integers, Sequences, FiniteSets, TLC

VARIABLES
    base_delivery_cost,     \* NegotiationEngine.base_delivery_cost (cents)
    min_profit_percent,     \* NegotiationEngine.min_profit_percent (percent)
    negotiation_history,    \* NegotiationEngine.negotiation_history: id -> NegotiationHistory
    call,                   \* arguments (and round) of the latest evaluate_offer call
    result,                 \* the dict returned by the latest evaluate_offer call
    catalog,                \* the list object main.products, which is also
                            \* recommendation_engine.products
    threads                 \* the /negotiate requests in flight, one per worker
                            \* thread: position in evaluate_offer and its locals

vars == <<base_delivery_cost, min_profit_percent, negotiation_history, call, result,
          catalog, threads>>

----------------------------------------------------------------------------
(* Bounds of the model *)

\* evaluate_offer calls that record a round, summed over all products
MaxRounds == 4

----------------------------------------------------------------------------
(* Configuration and catalog *)

DefaultBaseDeliveryCost == 500
DefaultMinProfitPercent == 15

\* NegotiationEngine(base_delivery_cost, min_profit_percent): the default
\* engine of main.py and an engine without delivery cost and profit margin.
Configs ==
    { [base_delivery_cost |-> DefaultBaseDeliveryCost,
       min_profit_percent |-> DefaultMinProfitPercent],
      [base_delivery_cost |-> 0, min_profit_percent |-> 0] }

\* products = load_all_products(): a row without a parsable Price gives a
\* product whose price is None.
LoadedProducts ==
    << [id |-> "electronics_0a", category |-> "electronics"],
       [id |-> "electronics_0b", category |-> "electronics", price |-> 10000],
       [id |-> "laptops_0c",     category |-> "laptops",     price |-> 40000] >>

products == { LoadedProducts[i] : i \in DOMAIN LoadedProducts }

\* Prices of the one-product catalogs on which the decision rule is
\* exercised: a negative, a zero and two positive prices.
TestPrices == {-10000, 0, 10000, 40000}

\* Worker threads of the server: negotiate is a plain "def" endpoint, which
\* the framework runs on a thread pool, one thread per request in flight.
Workers == {"worker_1", "worker_2"}

NoRequests == [w \in Workers |-> [pc |-> "idle"]]

\* product.price is None
PriceIsNone(product) == "price" \notin DOMAIN product

\* next((p for p in products if p.id == req.product_id), None)
ProductById(product_id) ==
    catalog[CHOOSE i \in DOMAIN catalog :
                /\ catalog[i].id = product_id
                /\ \A j \in 1..(i - 1) : catalog[j].id # product_id]

\* The offers a customer makes, in hundredths of a percent of the price.
OfferBasisPoints == {1000, 7500, 7700, 8500, 8996, 10000}

\* Offers made on a product without a price.
UnpricedOffers == {5000}

OfferedPrices(product) ==
    IF PriceIsNone(product) THEN UnpricedOffers
    ELSE { (product.price * bp) \div 10000 : bp \in OfferBasisPoints }

----------------------------------------------------------------------------
(* Arithmetic *)

\* n / d rounded to the nearest integer (n >= 0, d > 0)
RoundNearest(n, d) == (2 * n + d) \div (2 * d)

----------------------------------------------------------------------------
(* src/app/utils/text_processor.py: generate_negotiation_response.  The    *)
(* message is the chosen template (negotiation_round % 3) and the amounts  *)
(* it prints; the wording and the product name are left out.               *)

GenerateNegotiationResponse(status, offered_price, actual_price, negotiation_round) ==
    IF status = "accepted" THEN
        [status |-> status, template |-> negotiation_round % 3,
         offered_price |-> offered_price]
    ELSE IF status = "counter" THEN
        \* counter_price = (offered_price + actual_price) / 2, printed "%.2f"
        [status |-> status, template |-> negotiation_round % 3,
         offered_price |-> offered_price,
         counter_price |-> RoundNearest(offered_price + actual_price, 2)]
    ELSE
        \* template 0 prints actual_price, 1 and 2 print actual_price * 0.8
        [status |-> status, template |-> negotiation_round % 3,
         offered_price |-> offered_price,
         price |-> IF negotiation_round % 3 = 0 THEN actual_price
                   ELSE RoundNearest(actual_price * 8, 10)]

----------------------------------------------------------------------------
(* src/app/barter.py: NegotiationEngine *)

\* calculate_min_acceptable_price returning the profit margin alone
\* (total_base left out of the sum)
CalculateMinAcceptablePriceProfitOnly(delivery, percent, product) ==
    IF PriceIsNone(product) THEN 0
    ELSE RoundNearest((10 * product.price + 13 * delivery) * percent, 1300)

\* calculate_min_acceptable_price with a second markup tier: a 50% markup
\* assumed from a price of 200 on
CalculateMinAcceptablePriceTiered(delivery, percent, product) ==
    IF PriceIsNone(product) THEN 0
    ELSE IF product.price >= 20000
         THEN RoundNearest((10 * product.price + 15 * delivery) * (100 + percent), 1500)
    ELSE RoundNearest((10 * product.price + 13 * delivery) * (100 + percent), 1300)

\* calculate_min_acceptable_price, with the engine's two settings as
\* arguments: round((price / 1.3 + delivery) * (1 + percent / 100), 2)
CalculateMinAcceptablePrice(delivery, percent, product) ==
    IF PriceIsNone(product) THEN 0
    ELSE RoundNearest((10 * product.price + 13 * delivery) * (100 + percent), 1300)

\* get_negotiation_round that counts the rounds of the longest negotiation
\* of the engine, whatever its product
GetNegotiationRoundOfEngine(history, product_id) ==
    IF DOMAIN history = {} THEN 1
    ELSE 1 + CHOOSE n \in 0..MaxRounds :
                 /\ \E id \in DOMAIN history : Len(history[id].negotiation_rounds) = n
                 /\ \A id \in DOMAIN history : Len(history[id].negotiation_rounds) <= n

\* get_negotiation_round without the "+ 1"
GetNegotiationRoundZeroBased(history, product_id) ==
    IF product_id \notin DOMAIN history THEN 1
    ELSE Len(history[product_id].negotiation_rounds)

\* get_negotiation_round
GetNegotiationRound(history, product_id) ==
    IF product_id \notin DOMAIN history THEN 1
    ELSE Len(history[product_id].negotiation_rounds) + 1

\* NegotiationHistory(product_id=..., original_price=...): no rounds, no
\* final_price, status "pending"
NewNegotiationHistory(product_id, original_price) ==
    [product_id |-> product_id, original_price |-> original_price,
     negotiation_rounds |-> <<>>, status |-> "pending"]

\* "Initialize negotiation history if not exists"
EnsureHistory(history, product) ==
    IF product.id \notin DOMAIN history
    THEN (product.id :> NewNegotiationHistory(product.id, product.price)) @@ history
    ELSE history

\* the round record assigned instead of appended
RecordOfferReplacing(history, product_id, negotiation_round, offered_price, min_acceptable) ==
    [history EXCEPT ![product_id].negotiation_rounds =
        << [round |-> negotiation_round,
            customer_offer |-> offered_price,
            min_acceptable |-> min_acceptable] >>]

\* offers after the third round are not recorded
RecordOfferUpToThree(history, product_id, negotiation_round, offered_price, min_acceptable) ==
    IF negotiation_round > 3 THEN history
    ELSE [history EXCEPT ![product_id].negotiation_rounds =
             Append(@, [round |-> negotiation_round,
                        customer_offer |-> offered_price,
                        min_acceptable |-> min_acceptable])]

\* "Record this offer": negotiation_rounds.append({...})
RecordOffer(history, product_id, negotiation_round, offered_price, min_acceptable) ==
    [history EXCEPT ![product_id].negotiation_rounds =
        Append(@, [round |-> negotiation_round,
                   customer_offer |-> offered_price,
                   min_acceptable |-> min_acceptable])]

\* accept_threshold that relaxes one round late
AcceptThresholdLate(negotiation_round) ==
    IF negotiation_round <= 2 THEN 90
    ELSE IF negotiation_round = 3 THEN 85
    ELSE 82

\* accept_threshold by round, in percent
AcceptThreshold(negotiation_round) ==
    IF negotiation_round = 1 THEN 90
    ELSE IF negotiation_round = 2 THEN 85
    ELSE 82

\* counter_threshold that closes the negotiation from the third round on
CounterThresholdClosing(negotiation_round) ==
    IF negotiation_round = 1 THEN 80
    ELSE IF negotiation_round = 2 THEN 75
    ELSE 100

\* counter_threshold by round, in percent
CounterThreshold(negotiation_round) ==
    IF negotiation_round = 1 THEN 80
    ELSE IF negotiation_round = 2 THEN 75
    ELSE 70

\* offered_price > accept_price
OfferAcceptedStrictly(product, offered_price, negotiation_round) ==
    offered_price * 100 > product.price * AcceptThreshold(negotiation_round)

\* offered_price >= accept_price
OfferAccepted(product, offered_price, negotiation_round) ==
    offered_price * 100 >= product.price * AcceptThreshold(negotiation_round)

\* offered_price >= counter_price and offered_price >= min_acceptable
OfferCountered(product, offered_price, negotiation_round, min_acceptable) ==
    /\ offered_price * 100 >= product.price * CounterThreshold(negotiation_round)
    /\ offered_price >= min_acceptable

\* counter offer that moves a tenth of the way to the price
CounterOfferSmallStep(product, offered_price) ==
    RoundNearest(10 * offered_price + (product.price - offered_price) * 1, 10)

\* counter offer at the midpoint, as the message text computes it
CounterOfferMidpoint(product, offered_price) ==
    RoundNearest(offered_price + product.price, 2)

\* counter_offer = round(offered_price + (product.price - offered_price) * 0.4, 2)
CounterOffer(product, offered_price) ==
    RoundNearest(10 * offered_price + (product.price - offered_price) * 4, 10)

\* accept branch that never stores more than the original price
AcceptOfferCapped(history, product_id, offered_price) ==
    [history EXCEPT ![product_id] =
        ("final_price" :> IF offered_price > @.original_price
                          THEN @.original_price ELSE offered_price)
            @@ [@ EXCEPT !.status = "accepted"]]

\* "Accept the offer": status and final_price of the stored history
AcceptOffer(history, product_id, offered_price) ==
    [history EXCEPT ![product_id] =
        ("final_price" :> offered_price) @@ [@ EXCEPT !.status = "accepted"]]

\* counter offer that also reopens the negotiation
RecordCounterOfferReopening(history, product_id, counter_offer) ==
    [history EXCEPT ![product_id] =
        [@ EXCEPT !.status = "pending",
                  !.negotiation_rounds =
                      [@ EXCEPT ![Len(@)] = ("counter_offer" :> counter_offer) @@ @]]]

\* "Record counter offer" on the round record appended by this call
RecordCounterOffer(history, product_id, counter_offer) ==
    [history EXCEPT ![product_id].negotiation_rounds =
        [@ EXCEPT ![Len(@)] = ("counter_offer" :> counter_offer) @@ @]]

\* final rejection whatever the round
RejectOfferAnyRound(history, product_id, negotiation_round) ==
    [history EXCEPT ![product_id].status = "rejected"]

\* final rejection only after round 3
RejectOfferAfterThree(history, product_id, negotiation_round) ==
    IF negotiation_round > 3
    THEN [history EXCEPT ![product_id].status = "rejected"]
    ELSE history

\* "Reject the offer": final rejection from round 3 on
RejectOffer(history, product_id, negotiation_round) ==
    IF negotiation_round >= 3
    THEN [history EXCEPT ![product_id].status = "rejected"]
    ELSE history

\* the dict returned when the price is None
ErrorResult == [status |-> "error", message |-> [status |-> "error"]]

\* the dict returned on acceptance
AcceptedResult(product, offered_price, negotiation_round) ==
    [status |-> "accepted",
     message |-> GenerateNegotiationResponse("accepted", offered_price,
                                             product.price, negotiation_round),
     final_price |-> offered_price]

\* the dict returned with a counter offer
CounterResult(product, offered_price, negotiation_round, counter_offer) ==
    [status |-> "counter",
     message |-> GenerateNegotiationResponse("counter", offered_price,
                                             product.price, negotiation_round),
     counter_price |-> counter_offer]

\* a rejection that proposes the price named in its message
RejectedResultWithProposal(product, offered_price, negotiation_round) ==
    [status |-> "rejected",
     message |-> GenerateNegotiationResponse("rejected", offered_price,
                                             product.price, negotiation_round),
     counter_price |-> RoundNearest(product.price * 8, 10)]

\* the dict returned on rejection
RejectedResult(product, offered_price, negotiation_round) ==
    [status |-> "rejected",
     message |-> GenerateNegotiationResponse("rejected", offered_price,
                                             product.price, negotiation_round)]

\* the history created before the price is looked at
PriceUnavailableAfterCreate(history, product) ==
    IF product.id \notin DOMAIN history
    THEN (product.id :> [product_id |-> product.id, negotiation_rounds |-> <<>>,
                         status |-> "pending"]) @@ history
    ELSE history

\* The early return on a product without price: the history map as it is
\* left by that path.
PriceUnavailable(history, product) == history

\* evaluate_offer(product, offered_price)
EvaluateOffer(product, offered_price) ==
    IF PriceIsNone(product) THEN
        /\ negotiation_history' = PriceUnavailable(negotiation_history, product)
        /\ call' = [product_id |-> product.id, offered_price |-> offered_price]
        /\ result' = ErrorResult
        /\ UNCHANGED <<base_delivery_cost, min_profit_percent>>
    ELSE
        LET product_id == product.id
            negotiation_round == GetNegotiationRound(negotiation_history, product_id)
            created == EnsureHistory(negotiation_history, product)
            min_acceptable ==
                CalculateMinAcceptablePrice(base_delivery_cost, min_profit_percent, product)
            recorded == RecordOffer(created, product_id, negotiation_round,
                                    offered_price, min_acceptable)
        IN  /\ call' = [product_id |-> product_id, offered_price |-> offered_price,
                        negotiation_round |-> negotiation_round]
            /\ UNCHANGED <<base_delivery_cost, min_profit_percent>>
            /\ IF OfferAccepted(product, offered_price, negotiation_round) THEN
                   /\ negotiation_history' = AcceptOffer(recorded, product_id, offered_price)
                   /\ result' = AcceptedResult(product, offered_price, negotiation_round)
               ELSE IF OfferCountered(product, offered_price, negotiation_round,
                                      min_acceptable) THEN
                   LET counter_offer == CounterOffer(product, offered_price)
                   IN  /\ negotiation_history' =
                              RecordCounterOffer(recorded, product_id, counter_offer)
                       /\ result' = CounterResult(product, offered_price,
                                                  negotiation_round, counter_offer)
               ELSE
                   /\ negotiation_history' =
                          RejectOffer(recorded, product_id, negotiation_round)
                   /\ result' = RejectedResult(product, offered_price, negotiation_round)

----------------------------------------------------------------------------
(* src/main.py: POST /negotiate *)

RECURSIVE SumOver(_, _)
SumOver(f, S) ==
    IF S = {} THEN 0
    ELSE LET x == CHOOSE y \in S : TRUE IN f[x] + SumOver(f, S \ {x})

\* round records held by the engine, over all products
RecordedRounds ==
    SumOver([id \in DOMAIN negotiation_history |->
                Len(negotiation_history[id].negotiation_rounds)],
            DOMAIN negotiation_history)

\* negotiate(req): look the product up, evaluate the offer
Negotiate(product_id, offered_price) ==
    /\ \E i \in DOMAIN catalog : catalog[i].id = product_id
    /\ LET product == ProductById(product_id)
       IN  /\ PriceIsNone(product) \/ RecordedRounds < MaxRounds
           /\ EvaluateOffer(product, offered_price)
    /\ UNCHANGED <<catalog, threads>>

----------------------------------------------------------------------------
(* Specification *)

\* negotiation_engine = NegotiationEngine(): empty history, no call made yet
Init ==
    /\ \E c \in Configs :
          /\ base_delivery_cost = c.base_delivery_cost
          /\ min_profit_percent = c.min_profit_percent
    /\ negotiation_history = <<>>
    /\ call = [product_id |-> "none"]
    /\ result = [status |-> "none"]
    /\ catalog = LoadedProducts
    /\ threads = NoRequests

Next ==
    \E i \in DOMAIN catalog : \E o \in OfferedPrices(catalog[i]) :
        Negotiate(catalog[i].id, o)

Spec == Init /\ [][Next]_vars

\* The same engine over a catalog of one product whose price is any of
\* TestPrices.
InitPrices ==
    /\ \E c \in Configs :
          /\ base_delivery_cost = c.base_delivery_cost
          /\ min_profit_percent = c.min_profit_percent
    /\ negotiation_history = <<>>
    /\ call = [product_id |-> "none"]
    /\ result = [status |-> "none"]
    /\ \E x \in TestPrices :
          catalog = << [id |-> "tools_0d", category |-> "tools", price |-> x] >>
    /\ threads = NoRequests

SpecPrices == InitPrices /\ [][Next]_vars

----------------------------------------------------------------------------
(* src/main.py, src/app/barter.py: /negotiate requests served concurrently. *)
(* Neither negotiate nor evaluate_offer takes a lock, so the statements of  *)
(* two evaluate_offer calls interleave; each action below is one statement  *)
(* of evaluate_offer executed by one worker thread.                         *)

\* negotiate(req): the product is looked up and evaluate_offer is entered
ReceiveRequest(w, product_id, offered_price) ==
    /\ threads[w].pc = "idle"
    /\ \E i \in DOMAIN catalog : catalog[i].id = product_id
    /\ threads' = [threads EXCEPT ![w] =
           [pc |-> "check_price", product_id |-> product_id,
            offered_price |-> offered_price]]
    /\ UNCHANGED <<base_delivery_cost, min_profit_percent, negotiation_history,
                   call, result, catalog>>

\* if product.price is None: return the error dict
CheckPrice(w) ==
    /\ threads[w].pc = "check_price"
    /\ threads' = [threads EXCEPT ![w] =
           IF PriceIsNone(ProductById(threads[w].product_id))
           THEN [pc |-> "done", product_id |-> @.product_id,
                 offered_price |-> @.offered_price,
                 result |-> ErrorResult]
           ELSE [@ EXCEPT !.pc = "get_round"]]
    /\ UNCHANGED <<base_delivery_cost, min_profit_percent, negotiation_history,
                   call, result, catalog>>

\* negotiation_round = self.get_negotiation_round(product_id)
ReadRound(w) ==
    /\ threads[w].pc = "get_round"
    /\ threads' = [threads EXCEPT ![w] =
           [pc |-> "check_history", product_id |-> @.product_id,
            offered_price |-> @.offered_price,
            negotiation_round |->
                GetNegotiationRound(negotiation_history, @.product_id)]]
    /\ UNCHANGED <<base_delivery_cost, min_profit_percent, negotiation_history,
                   call, result, catalog>>

\* if product_id not in self.negotiation_history
CheckHistory(w) ==
    /\ threads[w].pc = "check_history"
    /\ threads' = [threads EXCEPT ![w].pc =
           IF threads[w].product_id \notin DOMAIN negotiation_history
           THEN "create_history" ELSE "record_offer"]
    /\ UNCHANGED <<base_delivery_cost, min_profit_percent, negotiation_history,
                   call, result, catalog>>

\* self.negotiation_history[product_id] = NegotiationHistory(...)
CreateHistory(w) ==
    /\ threads[w].pc = "create_history"
    /\ LET product == ProductById(threads[w].product_id)
       IN  negotiation_history' =
               (product.id :> NewNegotiationHistory(product.id, product.price))
                   @@ negotiation_history
    /\ threads' = [threads EXCEPT ![w].pc = "record_offer"]
    /\ UNCHANGED <<base_delivery_cost, min_profit_percent, call, result, catalog>>

\* min_acceptable = ...; negotiation_rounds.append({...})
AppendOffer(w) ==
    /\ threads[w].pc = "record_offer"
    /\ LET t == threads[w]
           product == ProductById(t.product_id)
           min_acceptable ==
               CalculateMinAcceptablePrice(base_delivery_cost, min_profit_percent, product)
       IN  negotiation_history' =
               RecordOffer(negotiation_history, t.product_id, t.negotiation_round,
                           t.offered_price, min_acceptable)
    /\ threads' = [threads EXCEPT ![w].pc = "evaluate"]
    /\ UNCHANGED <<base_delivery_cost, min_profit_percent, call, result, catalog>>

\* if offered_price >= accept_price: status = "accepted"
SetAccepted(w) ==
    /\ threads[w].pc = "evaluate"
    /\ LET t == threads[w]
       IN  /\ OfferAccepted(ProductById(t.product_id), t.offered_price,
                            t.negotiation_round)
           /\ negotiation_history' =
                  [negotiation_history EXCEPT ![t.product_id].status = "accepted"]
    /\ threads' = [threads EXCEPT ![w].pc = "set_final_price"]
    /\ UNCHANGED <<base_delivery_cost, min_profit_percent, call, result, catalog>>

\* final_price = offered_price; return the "accepted" dict
SetFinalPrice(w) ==
    /\ threads[w].pc = "set_final_price"
    /\ LET t == threads[w]
           product == ProductById(t.product_id)
       IN  /\ negotiation_history' =
                  [negotiation_history EXCEPT ![t.product_id] =
                      ("final_price" :> t.offered_price) @@ @]
           /\ threads' = [threads EXCEPT ![w] =
                  [pc |-> "done", product_id |-> t.product_id,
                   offered_price |-> t.offered_price,
                   negotiation_round |-> t.negotiation_round,
                   result |-> AcceptedResult(product, t.offered_price,
                                             t.negotiation_round)]]
    /\ UNCHANGED <<base_delivery_cost, min_profit_percent, call, result, catalog>>

\* elif ...: negotiation_rounds[-1]["counter_offer"] = counter_offer; return
SetCounterOffer(w) ==
    /\ threads[w].pc = "evaluate"
    /\ LET t == threads[w]
           product == ProductById(t.product_id)
           min_acceptable ==
               CalculateMinAcceptablePrice(base_delivery_cost, min_profit_percent, product)
           counter_offer == CounterOffer(product, t.offered_price)
       IN  /\ ~OfferAccepted(product, t.offered_price, t.negotiation_round)
           /\ OfferCountered(product, t.offered_price, t.negotiation_round,
                             min_acceptable)
           /\ negotiation_history' =
                  RecordCounterOffer(negotiation_history, t.product_id, counter_offer)
           /\ threads' = [threads EXCEPT ![w] =
                  [pc |-> "done", product_id |-> t.product_id,
                   offered_price |-> t.offered_price,
                   negotiation_round |-> t.negotiation_round,
                   result |-> CounterResult(product, t.offered_price,
                                            t.negotiation_round, counter_offer)]]
    /\ UNCHANGED <<base_delivery_cost, min_profit_percent, call, result, catalog>>

\* else: status = "rejected" from round 3 on; return the "rejected" dict
SetRejected(w) ==
    /\ threads[w].pc = "evaluate"
    /\ LET t == threads[w]
           product == ProductById(t.product_id)
           min_acceptable ==
               CalculateMinAcceptablePrice(base_delivery_cost, min_profit_percent, product)
       IN  /\ ~OfferAccepted(product, t.offered_price, t.negotiation_round)
           /\ ~OfferCountered(product, t.offered_price, t.negotiation_round,
                              min_acceptable)
           /\ negotiation_history' =
                  RejectOffer(negotiation_history, t.product_id, t.negotiation_round)
           /\ threads' = [threads EXCEPT ![w] =
                  [pc |-> "done", product_id |-> t.product_id,
                   offered_price |-> t.offered_price,
                   negotiation_round |-> t.negotiation_round,
                   result |-> RejectedResult(product, t.offered_price,
                                             t.negotiation_round)]]
    /\ UNCHANGED <<base_delivery_cost, min_profit_percent, call, result, catalog>>

NextConcurrent ==
    \E w \in Workers :
        \/ \E i \in DOMAIN catalog : \E o \in OfferedPrices(catalog[i]) :
               ReceiveRequest(w, catalog[i].id, o)
        \/ CheckPrice(w)
        \/ ReadRound(w)
        \/ CheckHistory(w)
        \/ CreateHistory(w)
        \/ AppendOffer(w)
        \/ SetAccepted(w)
        \/ SetFinalPrice(w)
        \/ SetCounterOffer(w)
        \/ SetRejected(w)

\* Two requests, one per worker thread, on the engine of main.py
SpecConcurrent == Init /\ [][NextConcurrent]_vars

----------------------------------------------------------------------------
(* Vocabulary of the properties *)

\* the latest call was made on a product that has a price
CallPriced ==
    /\ call.product_id # "none"
    /\ ~PriceIsNone(ProductById(call.product_id))

CallPricedNext ==
    /\ call'.product_id # "none"
    /\ ~PriceIsNone(ProductById(call'.product_id))

\* stored status of a product before a call: a history created by the call
\* starts "pending"
StatusBefore(product_id) ==
    IF product_id \in DOMAIN negotiation_history
    THEN negotiation_history[product_id].status
    ELSE "pending"

RoundsBefore(product_id) ==
    IF product_id \in DOMAIN negotiation_history
    THEN negotiation_history[product_id].negotiation_rounds
    ELSE <<>>

\* the thresholds as the specification states them, in percent
StatedAcceptPercent(r) == CASE r = 1 -> 90 [] r = 2 -> 85 [] OTHER -> 82
StatedCounterPercent(r) == CASE r = 1 -> 80 [] r = 2 -> 75 [] OTHER -> 70

\* the decision the specification states for offer o on price p in round r
\* with price floor m
StatedDecision(p, o, r, m) ==
    IF o * 100 >= p * StatedAcceptPercent(r) THEN "accepted"
    ELSE IF o * 100 >= p * StatedCounterPercent(r) /\ o >= m THEN "counter"
    ELSE "rejected"

\* round(o + (p - o) * 0.4, 2) in cents: (6 o + 4 p) / 10 to the nearest cent
StatedCounterPrice(p, o) == (6 * o + 4 * p + 5) \div 10

----------------------------------------------------------------------------
(* C1 .. C3: the decision rule *)

\* C1: for a product with a price, evaluate_offer accepts exactly when
\* offered_price >= product.price * accept_threshold (0.90 / 0.85 / 0.82 in
\* round 1 / 2 / 3+); on acceptance the stored status is "accepted", the
\* stored final_price is the offered price and the result status is
\* "accepted".
C1_AcceptRule ==
    CallPriced =>
        LET p == ProductById(call.product_id)
            o == call.offered_price
            accept == o * 100 >= p.price * StatedAcceptPercent(call.negotiation_round)
        IN  /\ (result.status = "accepted") <=> accept
            /\ accept =>
                 /\ p.id \in DOMAIN negotiation_history
                 /\ negotiation_history[p.id].status = "accepted"
                 /\ "final_price" \in DOMAIN negotiation_history[p.id]
                 /\ negotiation_history[p.id].final_price = o

\* an offer below 90% of the price is accepted in a later round
C1_Witness ==
    /\ CallPriced
    /\ result.status = "accepted"
    /\ call.negotiation_round >= 2
    /\ call.offered_price * 100 < ProductById(call.product_id).price * 90

\* C2: when an offer is not accepted, the result is "counter" exactly when
\* offered_price >= product.price * counter_threshold (0.80 / 0.75 / 0.70)
\* and offered_price >= minimum acceptable price; the counter price is
\* round(offered_price + (product.price - offered_price) * 0.4, 2), it is
\* returned as counter_price and stored as counter_offer on the round record
\* appended by this call, and the stored status is left unchanged.
C2_Step ==
    CallPricedNext =>
        LET p == ProductById(call'.product_id)
            o == call'.offered_price
            r == call'.negotiation_round
            m == CalculateMinAcceptablePrice(base_delivery_cost, min_profit_percent, p)
            rounds == negotiation_history'[p.id].negotiation_rounds
        IN  ~(o * 100 >= p.price * StatedAcceptPercent(r)) =>
              /\ (result'.status = "counter") <=>
                     (o * 100 >= p.price * StatedCounterPercent(r) /\ o >= m)
              /\ result'.status = "counter" =>
                   /\ result'.counter_price = StatedCounterPrice(p.price, o)
                   /\ Len(rounds) = Len(RoundsBefore(p.id)) + 1
                   /\ "counter_offer" \in DOMAIN rounds[Len(rounds)]
                   /\ rounds[Len(rounds)].counter_offer = result'.counter_price
                   /\ rounds[Len(rounds)].customer_offer = o
                   /\ negotiation_history'[p.id].status = StatusBefore(p.id)

C2_CounterRule == [][C2_Step]_vars

\* a counter offer in round 2 or later, where the price floor decides
C2_Witness ==
    /\ CallPriced
    /\ result.status = "counter"
    /\ call.negotiation_round >= 2
    /\ LET rounds == negotiation_history[call.product_id].negotiation_rounds
       IN  rounds[Len(rounds)].counter_offer = result.counter_price

\* C3: an offer that is neither accepted nor countered is "rejected"; the
\* stored status is set to "rejected" if and only if the round is 3 or
\* greater, and a rejection in round 1 or 2 leaves the stored status as it
\* was.
C3_Step ==
    CallPricedNext =>
        LET p == ProductById(call'.product_id)
            o == call'.offered_price
            r == call'.negotiation_round
            m == CalculateMinAcceptablePrice(base_delivery_cost, min_profit_percent, p)
        IN  StatedDecision(p.price, o, r, m) = "rejected" =>
              /\ result'.status = "rejected"
              /\ r >= 3 => negotiation_history'[p.id].status = "rejected"
              /\ r < 3 => negotiation_history'[p.id].status = StatusBefore(p.id)

C3_RejectRule == [][C3_Step]_vars

\* one product finally rejected in its round 3, another rejected in its
\* round 1 and still pending
C3_Witness ==
    /\ CallPriced
    /\ result.status = "rejected"
    /\ call.negotiation_round = 1
    /\ negotiation_history[call.product_id].status = "pending"
    /\ \E id \in DOMAIN negotiation_history :
          /\ id # call.product_id
          /\ Len(negotiation_history[id].negotiation_rounds) = 3
          /\ negotiation_history[id].status = "rejected"

----------------------------------------------------------------------------
(* C4, C5: the minimum acceptable price *)

DefaultConfig ==
    /\ base_delivery_cost = DefaultBaseDeliveryCost
    /\ min_profit_percent = DefaultMinProfitPercent

\* the latest call is a first-round offer o on the product priced 100.00
FirstRoundOn100(o) ==
    /\ CallPriced
    /\ ProductById(call.product_id).price = 10000
    /\ call.negotiation_round = 1
    /\ call.offered_price = o

\* C4 as stated: with the default configuration and a product priced 100, a
\* first-round offer of 75 is rejected and a first-round offer of 85 takes
\* the counter path with counter_offer = 91.0.
C4_Original ==
    DefaultConfig =>
        /\ FirstRoundOn100(7500) => result.status = "rejected"
        /\ FirstRoundOn100(8500) =>
              /\ result.status = "counter"
              /\ result.counter_price = 9100

\* C4 amended: with the default configuration and a product priced 100,
\* first-round offers of 75 and of 85 are both rejected (the minimum
\* acceptable price is 94.21); with base_delivery_cost 0 and
\* min_profit_percent 0 the offer of 85 takes the counter path with
\* counter_offer = 91.0.
C4_Amended ==
    /\ DefaultConfig =>
          /\ FirstRoundOn100(7500) => result.status = "rejected"
          /\ FirstRoundOn100(8500) =>
                /\ result.status = "rejected"
                /\ negotiation_history[call.product_id].negotiation_rounds[1].min_acceptable = 9421
    /\ (base_delivery_cost = 0 /\ min_profit_percent = 0 /\ FirstRoundOn100(8500)) =>
              /\ result.status = "counter"
              /\ result.counter_price = 9100
              /\ negotiation_history[call.product_id].negotiation_rounds[1].counter_offer = 9100

C4_Witness ==
    /\ DefaultConfig
    /\ FirstRoundOn100(8500)
    /\ result.status = "rejected"

\* C5: the minimum acceptable price is a floor: evaluate_offer never returns
\* "accepted" or "counter" for an offered_price strictly below
\* minimum_acceptable_price(product).
C5_Floor ==
    (CallPriced /\ result.status \in {"accepted", "counter"}) =>
        call.offered_price >=
            CalculateMinAcceptablePrice(base_delivery_cost, min_profit_percent,
                                        ProductById(call.product_id))

----------------------------------------------------------------------------
(* C6 .. C10: the stored histories *)

\* C6: evaluate_offer on a product whose price is absent returns status
\* "error" and leaves the whole history map unchanged: no history is
\* created, no round is appended, the current round does not advance.
C6_Step ==
    (call'.product_id # "none" /\ PriceIsNone(ProductById(call'.product_id))) =>
        /\ result'.status = "error"
        /\ negotiation_history' = negotiation_history
        /\ call'.product_id \notin DOMAIN negotiation_history'

C6_ErrorLeavesHistory == [][C6_Step]_vars

\* an error result while other products are under negotiation
C6_Witness ==
    /\ result.status = "error"
    /\ PriceIsNone(ProductById(call.product_id))
    /\ negotiation_history # <<>>
    /\ call.product_id \notin DOMAIN negotiation_history

\* C7: current_round(product_id) is 1 when the product has no history and
\* otherwise 1 + the number of recorded rounds, and the k-th round record of
\* every history carries round number k.
C7_RoundNumbers ==
    /\ \A p \in products :
          GetNegotiationRound(negotiation_history, p.id) =
              IF p.id \in DOMAIN negotiation_history
              THEN 1 + Len(negotiation_history[p.id].negotiation_rounds)
              ELSE 1
    /\ \A id \in DOMAIN negotiation_history :
          LET rounds == negotiation_history[id].negotiation_rounds
          IN  /\ Len(rounds) >= 1
              /\ \A k \in 1..Len(rounds) : rounds[k].round = k
    /\ CallPriced =>
          call.negotiation_round =
              Len(negotiation_history[call.product_id].negotiation_rounds)

C7_Witness ==
    \E id \in DOMAIN negotiation_history :
        /\ Len(negotiation_history[id].negotiation_rounds) = 3
        /\ negotiation_history[id].negotiation_rounds[3].round = 3
        /\ \E other \in DOMAIN negotiation_history : other # id

Terminal(h) == h.status \in {"accepted", "rejected"}

\* C8 as stated: a history is immutable once its status is "accepted" or
\* has been forced to "rejected": no later evaluate_offer call changes its
\* round records, status or final_price.
C8_OriginalStep ==
    \A id \in DOMAIN negotiation_history :
        Terminal(negotiation_history[id]) =>
            /\ id \in DOMAIN negotiation_history'
            /\ negotiation_history'[id] = negotiation_history[id]

C8_Original == [][C8_OriginalStep]_vars

\* C8 amended: a history is not frozen by the status "accepted" or
\* "rejected": every later evaluate_offer call on that product appends one
\* round record and sets status and final_price by the normal rule (an
\* accepted offer overwrites both, a rejection in round 3 or later sets the
\* status "rejected", a counter changes neither); only product_id,
\* original_price and the round records already stored are never changed.
FinalPriceOf(h) == IF "final_price" \in DOMAIN h THEN <<h.final_price>> ELSE <<>>

C8_AmendedStep ==
    \A id \in DOMAIN negotiation_history :
        LET h == negotiation_history[id]
        IN  /\ id \in DOMAIN negotiation_history'
            /\ negotiation_history'[id].product_id = h.product_id
            /\ negotiation_history'[id].original_price = h.original_price
            /\ Len(negotiation_history'[id].negotiation_rounds) >= Len(h.negotiation_rounds)
            /\ SubSeq(negotiation_history'[id].negotiation_rounds, 1,
                      Len(h.negotiation_rounds)) = h.negotiation_rounds
            /\ (Terminal(h) /\ call'.product_id = id) =>
                  LET hn == negotiation_history'[id]
                  IN  /\ Len(hn.negotiation_rounds) = Len(h.negotiation_rounds) + 1
                      /\ result'.status = "accepted" =>
                            /\ hn.status = "accepted"
                            /\ FinalPriceOf(hn) = <<call'.offered_price>>
                      /\ result'.status = "counter" =>
                            /\ hn.status = h.status
                            /\ FinalPriceOf(hn) = FinalPriceOf(h)
                      /\ result'.status = "rejected" =>
                            /\ hn.status = IF call'.negotiation_round >= 3
                                           THEN "rejected" ELSE h.status
                            /\ FinalPriceOf(hn) = FinalPriceOf(h)

C8_Amended == [][C8_AmendedStep]_vars

\* a product accepted in round 1 on which a later call changed the status
C8_Witness ==
    \E id \in DOMAIN negotiation_history :
        LET h == negotiation_history[id]
        IN  /\ call.product_id = id
            /\ Len(h.negotiation_rounds) >= 3
            /\ h.negotiation_rounds[1].customer_offer * 100 >= h.original_price * 90
            /\ h.status = "rejected"

\* C9: once the stored status is "rejected", further calls are still
\* evaluated by the normal decision rule, and the stored status stays
\* "rejected" after every call whose result is "counter" or "rejected"; it
\* changes only when a later call's result is "accepted".
C9_Step ==
    (/\ CallPricedNext
     /\ call'.product_id \in DOMAIN negotiation_history
     /\ negotiation_history[call'.product_id].status = "rejected") =>
        LET p == ProductById(call'.product_id)
            m == CalculateMinAcceptablePrice(base_delivery_cost, min_profit_percent, p)
            hn == negotiation_history'[p.id]
        IN  /\ result'.status =
                  StatedDecision(p.price, call'.offered_price, call'.negotiation_round, m)
            /\ result'.status \in {"counter", "rejected"} => hn.status = "rejected"
            /\ hn.status # "rejected" =>
                  /\ result'.status = "accepted"
                  /\ hn.status = "accepted"

C9_RejectedStays == [][C9_Step]_vars

\* a counter offer made on a product whose status is already "rejected"
C9_Witness ==
    /\ CallPriced
    /\ result.status = "counter"
    /\ call.negotiation_round >= 4
    /\ negotiation_history[call.product_id].status = "rejected"

\* every recorded offer of the history is 10% of the original price
OnlyTenPercentOffers(h) ==
    \A k \in 1..Len(h.negotiation_rounds) :
        h.negotiation_rounds[k].customer_offer * 10 = h.original_price

\* C10: for a product with a positive price an offer of 10% of the price is
\* rejected in every round; after three such consecutive calls on a product
\* with no prior history the stored status is "rejected", and it is still
\* "pending" after the first and after the second call.
C10_LowOffers ==
    /\ (/\ CallPriced
        /\ ProductById(call.product_id).price > 0
        /\ call.offered_price * 10 = ProductById(call.product_id).price) =>
            result.status = "rejected"
    /\ \A id \in DOMAIN negotiation_history :
          LET h == negotiation_history[id]
          IN  (h.original_price > 0 /\ OnlyTenPercentOffers(h)) =>
                  /\ Len(h.negotiation_rounds) \in {1, 2} => h.status = "pending"
                  /\ Len(h.negotiation_rounds) >= 3 => h.status = "rejected"

C10_Witness ==
    \E id \in DOMAIN negotiation_history :
        LET h == negotiation_history[id]
        IN  /\ h.original_price > 0
            /\ OnlyTenPercentOffers(h)
            /\ Len(h.negotiation_rounds) = 3
            /\ h.status = "rejected"

----------------------------------------------------------------------------
(* C11: an offer of the full price *)

\* the latest call offered exactly the product's price
FullPriceOffered ==
    /\ CallPriced
    /\ call.offered_price = ProductById(call.product_id).price

\* C11 as stated: for every product with a price and in every round,
\* evaluate_offer with offered_price equal to product.price returns
\* "accepted", whatever the earlier history.
C11_Original ==
    FullPriceOffered => result.status = "accepted"

\* C11 amended: for every product with a non-negative price and in every
\* round, evaluate_offer with offered_price equal to product.price returns
\* "accepted", whatever the earlier history.
C11_Amended ==
    (FullPriceOffered /\ ProductById(call.product_id).price >= 0) =>
        /\ result.status = "accepted"
        /\ result.final_price = ProductById(call.product_id).price

\* the full price accepted in a late round, after a final rejection
C11_Witness ==
    /\ FullPriceOffered
    /\ ProductById(call.product_id).price > 0
    /\ call.negotiation_round >= 4
    /\ negotiation_history[call.product_id].negotiation_rounds[3].customer_offer
           < call.offered_price
    /\ result.status = "accepted"

----------------------------------------------------------------------------
(* C12: concurrent /negotiate requests *)

\* C12: the HTTP layer serializes access per product identifier: when two
\* /negotiate requests for the same product run concurrently, the steps of
\* the two evaluate_offer calls do not interleave, so both offers end up as
\* round records of the same history with distinct consecutive round
\* numbers and no record is lost.
C12_Serialized ==
    \A w1, w2 \in Workers :
        (/\ w1 # w2
         /\ threads[w1].pc = "done"
         /\ threads[w2].pc = "done"
         /\ threads[w1].product_id = threads[w2].product_id
         /\ threads[w1].result.status # "error") =>
            LET rounds ==
                    negotiation_history[threads[w1].product_id].negotiation_rounds
            IN  /\ Len(rounds) = 2
                /\ rounds[1].round = 1
                /\ rounds[2].round = 2
                /\ {threads[w1].negotiation_round, threads[w2].negotiation_round}
                       = {1, 2}

----------------------------------------------------------------------------
(* C13: histories only grow *)

\* the fields of a round record that every call writes
OfferFields(rec) ==
    [round |-> rec.round, customer_offer |-> rec.customer_offer,
     min_acceptable |-> rec.min_acceptable]

\* C13: a history is never deleted and never shrinks: once a product has a
\* history it has one in every later state, and every evaluate_offer call
\* on a product with a price appends exactly one round record (round,
\* customer_offer, min_acceptable) to that product's history, whatever the
\* outcome of the call.
C13_Step ==
    /\ \A id \in DOMAIN negotiation_history :
          /\ id \in DOMAIN negotiation_history'
          /\ Len(negotiation_history'[id].negotiation_rounds)
                 >= Len(negotiation_history[id].negotiation_rounds)
    /\ CallPricedNext =>
          LET p == ProductById(call'.product_id)
              before == RoundsBefore(p.id)
          IN  /\ p.id \in DOMAIN negotiation_history'
              /\ LET after == negotiation_history'[p.id].negotiation_rounds
                 IN  /\ Len(after) = Len(before) + 1
                     /\ SubSeq(after, 1, Len(before)) = before
                     /\ OfferFields(after[Len(after)]) =
                            [round |-> Len(before) + 1,
                             customer_offer |-> call'.offered_price,
                             min_acceptable |->
                                 CalculateMinAcceptablePrice(base_delivery_cost,
                                     min_profit_percent, p)]
              /\ \A id \in DOMAIN negotiation_history' :
                    id # p.id =>
                        /\ id \in DOMAIN negotiation_history
                        /\ negotiation_history'[id] = negotiation_history[id]

C13_HistoriesGrow == [][C13_Step]_vars

\* one history that recorded a countered, a rejected and an accepted offer
C13_Witness ==
    \E id \in DOMAIN negotiation_history :
        LET h == negotiation_history[id]
        IN  /\ Len(h.negotiation_rounds) = 4
            /\ \E k \in 1..4 : "counter_offer" \in DOMAIN h.negotiation_rounds[k]
            /\ \E k \in 1..4 :
                  h.negotiation_rounds[k].customer_offer * 10 = h.original_price
            /\ h.status = "accepted"

----------------------------------------------------------------------------
(* C14: the shape of a result *)

\* C14: every evaluate_offer result has a status in {accepted, counter,
\* rejected, error} and a message; it carries final_price if and only if the
\* status is "accepted" (then equal to the offered price) and carries
\* counter_price if and only if the status is "counter".
C14_ResultShape ==
    call.product_id # "none" =>
        /\ result.status \in {"accepted", "counter", "rejected", "error"}
        /\ "message" \in DOMAIN result
        /\ ("final_price" \in DOMAIN result) <=> (result.status = "accepted")
        /\ result.status = "accepted" => result.final_price = call.offered_price
        /\ ("counter_price" \in DOMAIN result) <=> (result.status = "counter")
        /\ DOMAIN result \subseteq {"status", "message", "counter_price", "final_price"}

\* a rejection, which carries neither price
C14_Witness ==
    /\ CallPriced
    /\ result.status = "rejected"
    /\ DOMAIN result = {"status", "message"}
    /\ call.negotiation_round >= 3

----------------------------------------------------------------------------
(* C15: later rounds are never stricter *)

\* the branch evaluate_offer takes for an offer in a round
Outcome(product, offered_price, negotiation_round, min_acceptable) ==
    IF OfferAccepted(product, offered_price, negotiation_round) THEN "accepted"
    ELSE IF OfferCountered(product, offered_price, negotiation_round, min_acceptable)
         THEN "counter"
    ELSE "rejected"

\* rejected < counter < accepted
Favour(status) ==
    CASE status = "rejected" -> 0
      [] status = "counter" -> 1
      [] status = "accepted" -> 2

\* the rounds a negotiation can be evaluated in
LaterRounds(r) == (r + 1) .. (MaxRounds + 1)

C15_Step ==
    (CallPricedNext /\ ProductById(call'.product_id).price >= 0) =>
        LET p == ProductById(call'.product_id)
            o == call'.offered_price
            m == CalculateMinAcceptablePrice(base_delivery_cost, min_profit_percent, p)
        IN  /\ result'.status = Outcome(p, o, call'.negotiation_round, m)
            /\ \A r2 \in LaterRounds(call'.negotiation_round) :
                  Favour(Outcome(p, o, r2, m)) >= Favour(result'.status)
            /\ (/\ CallPriced
                /\ call.product_id = p.id
                /\ call.offered_price = o)
                  => /\ call'.negotiation_round > call.negotiation_round
                     /\ Favour(result'.status) >= Favour(result.status)

\* C15: for a fixed product with a non-negative price and a fixed offered
\* price, the outcome of evaluate_offer at a later round is never less
\* favourable than at an earlier round, ordering the outcomes
\* rejected < counter < accepted.
C15_NeverStricter == [][C15_Step]_vars

\* an offer rejected in round 1, repeated and countered in round 2
C15_Witness ==
    /\ CallPriced
    /\ ProductById(call.product_id).price > 0
    /\ call.negotiation_round = 2
    /\ result.status = "counter"
    /\ LET first == negotiation_history[call.product_id].negotiation_rounds[1]
       IN  /\ first.customer_offer = call.offered_price
           /\ "counter_offer" \notin DOMAIN first

----------------------------------------------------------------------------
(* C16: the minimum acceptable price grows with the price *)

\* prices the minimum acceptable price is compared on, besides those of the
\* catalog
PriceGrid == {-10000, 0, 1, 9999, 10000, 19999, 20000, 40000}

Priced(x) == [id |-> "any", category |-> "any", price |-> x]

\* round((price / 1.3 + base_delivery_cost) * (1 + min_profit_percent / 100), 2)
\* as the specification states it
StatedMinimum(price) ==
    RoundNearest((10 * price + 13 * base_delivery_cost) * (100 + min_profit_percent),
                 13 * 100)

MinimumOf(price) ==
    CalculateMinAcceptablePrice(base_delivery_cost, min_profit_percent, Priced(price))

\* the (original_price, min_acceptable) pairs the engine has recorded
RecordedMinimums ==
    UNION { { <<negotiation_history[id].original_price,
                negotiation_history[id].negotiation_rounds[k].min_acceptable>> :
              k \in DOMAIN negotiation_history[id].negotiation_rounds } :
            id \in DOMAIN negotiation_history }

\* C16: for fixed base_delivery_cost and min_profit_percent, the minimum
\* acceptable price is monotone in the product price (p1 <= p2 implies
\* minimum(p1) <= minimum(p2)), where the value is
\* round((price / 1.3 + base_delivery_cost) * (1 + min_profit_percent / 100), 2).
C16_Monotone ==
    /\ \A p1, p2 \in PriceGrid : p1 <= p2 => MinimumOf(p1) <= MinimumOf(p2)
    /\ \A x \in PriceGrid : MinimumOf(x) = StatedMinimum(x)
    /\ \A a, b \in RecordedMinimums : a[1] <= b[1] => a[2] <= b[2]
    /\ \A a \in RecordedMinimums : a[2] = StatedMinimum(a[1])

\* the engine has computed the minimum of two products of different prices
C16_Witness ==
    \E a, b \in RecordedMinimums : a[1] < b[1] /\ a[2] < b[2]

----------------------------------------------------------------------------
(* src/main.py: the catalog served by GET /products and read by the        *)
(* recommendation engine.  Titles and feature values are sequences of      *)
(* characters, ratings are in tenths, prices in cents.                     *)

\* features = {}
NoFeatures == [n \in {} |-> <<>>]

\* A catalog as load_all_products builds it: products of one category with
\* equal and different titles, with and without price and rating, and one
\* product of a second category.
ShopProducts ==
    << [id |-> "laptops_00", title |-> <<"B", "o", "o", "k", " ", "8">>,
        category |-> "laptops", price |-> 40000, rating |-> 40, reviews |-> 100,
        features |-> [ram |-> <<"8">>, storage |-> <<"2", "5", "6">>]],
       [id |-> "laptops_01", title |-> <<"P", "a", "d">>,
        category |-> "laptops", price |-> 10000, rating |-> 39, reviews |-> 160,
        features |-> [storage |-> <<"5", "1", "2">>]],
       [id |-> "laptops_02", title |-> <<"B", "o", "o", "k", " ", "8">>,
        category |-> "laptops", price |-> 45000, rating |-> 40, reviews |-> 100,
        features |-> [ram |-> <<"8">>, storage |-> <<"2", "5", "6">>]],
       [id |-> "laptops_03", title |-> <<"B", "o", "o", "k", " ", "8">>,
        category |-> "laptops", rating |-> 45, reviews |-> 100,
        features |-> [ram |-> <<"8">>, storage |-> <<"2", "5", "6">>]],
       [id |-> "laptops_04", title |-> <<"B", "o", "o", "k", " ", "1", "6">>,
        category |-> "laptops", price |-> 60000, reviews |-> 200,
        features |-> [ram |-> <<"1", "6">>, storage |-> <<"2", "5", "6">>]],
       [id |-> "laptops_05", title |-> <<"B", "o", "o", "k", "-", "8", "!">>,
        category |-> "laptops", price |-> 41000, rating |-> 40, reviews |-> 150,
        features |-> [ram |-> <<"8", "G", "B">>, storage |-> <<"x">>]],
       [id |-> "laptops_06", title |-> <<"B", "O", "O", "K", " ", "4">>,
        category |-> "laptops", price |-> 30000, rating |-> 35, reviews |-> 10,
        features |-> [ram |-> <<"4">>, sku |-> <<"8">>]],
       [id |-> "laptops_07", title |-> <<"B", "o", "o">>,
        category |-> "laptops", price |-> 20000, rating |-> 48, reviews |-> 5,
        features |-> NoFeatures],
       [id |-> "laptops_08", title |-> <<"P", "a", "d", " ", "8">>,
        category |-> "laptops", price |-> 15000, rating |-> 40, reviews |-> 90,
        features |-> [ram |-> <<"x">>, storage |-> <<"5", "1", "2">>]],
       [id |-> "laptops_09", title |-> <<"B", "o">>,
        category |-> "laptops", price |-> 12000, rating |-> 30, reviews |-> 20,
        features |-> [category_keywords |-> <<"laptop", "ssd">>]],
       [id |-> "laptops_10", title |-> <<"O", "k">>,
        category |-> "laptops", price |-> 11000, rating |-> 30, reviews |-> 20,
        features |-> [category_keywords |-> <<"laptop">>]],
       [id |-> "laptops_11", title |-> <<"K", " ", "2">>,
        category |-> "laptops", price |-> 9000, reviews |-> 0,
        features |-> [ram |-> <<"2">>]],
       [id |-> "laptops_12", title |-> <<"O">>,
        category |-> "laptops", price |-> 8000, rating |-> 50, reviews |-> 30,
        features |-> NoFeatures],
       [id |-> "laptops_13", title |-> <<"8">>,
        category |-> "laptops", price |-> 7000, rating |-> 49, reviews |-> 400,
        features |-> [storage |-> <<"1">>]],
       [id |-> "laptops_14", title |-> <<"Z", "Z">>,
        category |-> "laptops", price |-> 6000, rating |-> 50, reviews |-> 900,
        features |-> [brand |-> <<"Z", "e", "d">>]],
       [id |-> "phones_00", title |-> <<"B", "o", "o", "k", " ", "8">>,
        category |-> "phones", price |-> 40000, rating |-> 50, reviews |-> 900,
        features |-> [ram |-> <<"8">>, storage |-> <<"2", "5", "6">>]] >>

\* the rows in the opposite order (os.listdir gives the files in any order)
RECURSIVE Reversed(_)
Reversed(seq) ==
    IF seq = <<>> THEN <<>> ELSE Append(Reversed(Tail(seq)), Head(seq))

Catalogs == {ShopProducts, Reversed(ShopProducts)}

\* a product with every optional field of ProductModel absent: no price, no
\* rating, no review count, and the default empty features
BareProduct ==
    [id |-> "laptops_15", title |-> <<"B", "o", "o", "k", " ", "8">>,
     category |-> "laptops", features |-> NoFeatures]

\* the shop's products and the bare product: a list of products the product
\* model admits
AdmittedProducts == Append(ShopProducts, BareProduct)

\* list.sort(key=..., reverse=...) on (key, item) pairs: a stable sort; with
\* reverse the larger keys come first, and equal keys keep their order
RECURSIVE SortPairs(_, _, _)
SortPairs(pairs, n, reverse) ==
    IF n = 0 THEN <<>>
    ELSE LET sorted == SortPairs(pairs, n - 1, reverse)
             item == pairs[n]
             ahead == Cardinality({ i \in DOMAIN sorted :
                                      IF reverse THEN sorted[i][1] >= item[1]
                                      ELSE sorted[i][1] <= item[1] })
         IN  SubSeq(sorted, 1, ahead) \o <<item>> \o SubSeq(sorted, ahead + 1, Len(sorted))

\* the items of sorted (key, item) pairs
RECURSIVE Items(_)
Items(pairs) ==
    IF pairs = <<>> THEN <<>> ELSE <<Head(pairs)[2]>> \o Items(Tail(pairs))

\* seq.sort(key=..., reverse=...), keys[i] being the key of seq[i]
SortBy(seq, keys, reverse) ==
    LET pairs == [i \in DOMAIN seq |-> <<keys[i], seq[i]>>]
    IN  Items(SortPairs(pairs, Len(seq), reverse))

\* seq[:limit]
Slice(seq, limit) ==
    IF limit >= Len(seq) THEN seq
    ELSE IF limit >= 0 THEN SubSeq(seq, 1, limit)
    ELSE IF Len(seq) + limit > 0 THEN SubSeq(seq, 1, Len(seq) + limit)
    ELSE <<>>

\* values of sort_by: the four the handler knows and one it does not
SortKeys == {"price", "price_desc", "rating", "reviews", "title"}

\* query strings of GET /products; a parameter that is not given is absent
ProductQueries ==
    { [sort_by |-> k, limit |-> 20] : k \in SortKeys }
    \cup { [sort_by |-> "rating", limit |-> 2] }
    \cup { [category |-> "laptops", sort_by |-> "rating", limit |-> 20] }
    \cup { [min_price |-> 10000, max_price |-> 40000, sort_by |-> "price", limit |-> 20],
           [min_price |-> 10000, sort_by |-> "price_desc", limit |-> 20],
           [min_rating |-> 40, sort_by |-> "reviews", limit |-> 20] }

\* the sort step of get_products: filtered_products.sort(...)
SortProducts(list, sort_by) ==
    CASE sort_by = "price" ->
            SortBy(list, [i \in DOMAIN list |->
                             IF PriceIsNone(list[i]) THEN 2147483647 ELSE list[i].price],
                   FALSE)
      [] sort_by = "price_desc" ->
            SortBy(list, [i \in DOMAIN list |->
                             IF PriceIsNone(list[i]) THEN 0 ELSE list[i].price],
                   TRUE)
      [] sort_by = "rating" ->
            SortBy(list, [i \in DOMAIN list |->
                             IF "rating" \in DOMAIN list[i] THEN list[i].rating ELSE 0],
                   TRUE)
      [] sort_by = "reviews" ->
            SortBy(list, [i \in DOMAIN list |-> list[i].reviews], TRUE)
      [] OTHER -> list

\* get_products(category, min_price, max_price, min_rating, sort_by, limit).
\* Without a category the handler works on the list "products" itself, and
\* unless a filter replaces it by a new list the sort is done in place on
\* the list the recommendation engine holds.
GetProducts(query) ==
    LET by_category ==
            IF "category" \in DOMAIN query
            THEN SelectSeq(catalog, LAMBDA q : q.category = query.category)
            ELSE catalog
        price_filter == {"min_price", "max_price"} \subseteq DOMAIN query
        by_price ==
            IF price_filter
            THEN SelectSeq(by_category,
                           LAMBDA q : /\ ~PriceIsNone(q)
                                      /\ query.min_price <= q.price
                                      /\ q.price <= query.max_price)
            ELSE by_category
        by_rating ==
            IF "min_rating" \in DOMAIN query
            THEN SelectSeq(by_price,
                           LAMBDA q : /\ "rating" \in DOMAIN q
                                      /\ q.rating >= query.min_rating)
            ELSE by_price
        is_products ==
            /\ "category" \notin DOMAIN query
            /\ ~price_filter
            /\ "min_rating" \notin DOMAIN query
        filtered_products == SortProducts(by_rating, query.sort_by)
    IN  /\ catalog' = IF is_products THEN filtered_products ELSE catalog
        /\ call' = [endpoint |-> "products", query |-> query]
        /\ result' = [status_code |-> 200,
                       products |-> Slice(filtered_products, query.limit)]
        /\ UNCHANGED <<base_delivery_cost, min_profit_percent, negotiation_history,
                       threads>>

----------------------------------------------------------------------------
(* src/app/utils/text_processor.py and difflib: text similarity.  A ratio  *)
(* is an integer number of 1/4324320 (4324320 = 6 * lcm(1..16)), which is  *)
(* exact for texts of up to 16 characters together.                        *)

\* str.lower() on the letters that occur in titles
LowerCase ==
    [c \in {"B", "G", "K", "O", "P", "Z"} |->
        CASE c = "B" -> "b" [] c = "G" -> "g" [] c = "K" -> "k"
          [] c = "O" -> "o" [] c = "P" -> "p" [] c = "Z" -> "z"]

\* string.punctuation, the characters of it that occur in titles
Punctuation == {"!", ",", "-", "."}

\* re.sub(r'\s+', ' ', text).strip()
RECURSIVE SingleSpaces(_)
SingleSpaces(text) ==
    IF text = <<>> THEN <<>>
    ELSE IF Head(text) = " " /\ (Len(text) = 1 \/ text[2] = " ")
         THEN SingleSpaces(Tail(text))
    ELSE <<Head(text)>> \o SingleSpaces(Tail(text))

\* clean_text(text)
CleanText(text) ==
    LET lower == [i \in DOMAIN text |->
                     IF text[i] \in DOMAIN LowerCase THEN LowerCase[text[i]] ELSE text[i]]
        plain == SelectSeq(lower, LAMBDA c : c \notin Punctuation)
        spaced == SingleSpaces(plain)
    IN  IF spaced # <<>> /\ Head(spaced) = " " THEN Tail(spaced) ELSE spaced

\* SequenceMatcher.get_matching_blocks: the longest block that a[alo..ahi]
\* and b[blo..bhi] share, the earliest in a and then in b, and the same to
\* its left and to its right; the result is the number of matched characters
RECURSIVE MatchingSize(_, _, _, _, _, _)
MatchingSize(a, b, alo, ahi, blo, bhi) ==
    LET blocks == { t \in (alo .. ahi) \X (blo .. bhi) \X (1 .. (ahi - alo + 1)) :
                       /\ t[1] + t[3] - 1 <= ahi
                       /\ t[2] + t[3] - 1 <= bhi
                       /\ SubSeq(a, t[1], t[1] + t[3] - 1) = SubSeq(b, t[2], t[2] + t[3] - 1) }
    IN  IF blocks = {} THEN 0
        ELSE LET longest == { t \in blocks : \A u \in blocks : u[3] <= t[3] }
                 first_a == { t \in longest : \A u \in longest : t[1] <= u[1] }
                 best == CHOOSE t \in first_a : \A u \in first_a : t[2] <= u[2]
             IN  best[3]
                 + MatchingSize(a, b, alo, best[1] - 1, blo, best[2] - 1)
                 + MatchingSize(a, b, best[1] + best[3], ahi, best[2] + best[3], bhi)

\* SequenceMatcher(None, a, b).ratio(): 2.0 * matches / length, 1.0 for two
\* empty sequences
Ratio(a, b) ==
    IF Len(a) + Len(b) = 0 THEN 4324320
    ELSE (2 * MatchingSize(a, b, 1, Len(a), 1, Len(b)) * 4324320) \div (Len(a) + Len(b))

\* calculate_text_similarity(text1, text2)
CalculateTextSimilarity(text1, text2) ==
    IF text1 = <<>> \/ text2 = <<>> THEN 0
    ELSE Ratio(CleanText(text1), CleanText(text2))

----------------------------------------------------------------------------
(* src/app/recommender.py: RecommendationEngine.  A score is an integer    *)
(* number of 1/432432000 (a ratio times a weight in hundredths).           *)

\* get_feature_importance_weights(), in tenths
FeatureWeights ==
    [ram |-> 8, storage |-> 7, processor |-> 9, screen_size |-> 6, resolution |-> 5,
     battery |-> 4, brand |-> 3, color |-> 2, bluetooth |-> 3, waterproof |-> 3,
     wireless |-> 3, noise_cancelling |-> 4, material |-> 3, weight |-> 3,
     category_keywords |-> 6]

\* set(keywords)
Elements(list) == { list[i] : i \in DOMAIN list }

\* the common feature takes part in the feature similarity: both values
\* are non-empty
FeatureCompared(product1, product2, feature_name) ==
    /\ product1.features[feature_name] # <<>>
    /\ product2.features[feature_name] # <<>>

\* the similarity of one common feature, before its weight is applied
FeatureSimilarity(product1, product2, feature_name) ==
    IF feature_name = "category_keywords"
    THEN LET keywords1 == Elements(product1.features[feature_name])
             keywords2 == Elements(product2.features[feature_name])
         IN  (Cardinality(keywords1 \cap keywords2) * 4324320)
                 \div Cardinality(keywords1 \cup keywords2)
    ELSE Ratio(product1.features[feature_name], product2.features[feature_name])

\* calculate_similarity_score that scores the titles of all products
CalculateSimilarityScoreAcrossCategories(product1, product2) ==
    CalculateTextSimilarity(product1.title, product2.title) * 3 * 10

\* calculate_similarity_score(product1, product2)
CalculateSimilarityScore(product1, product2) ==
    IF product1.category # product2.category THEN 0
    ELSE
        LET title_similarity ==
                CalculateTextSimilarity(product1.title, product2.title) * 3
            compared ==
                { f \in (DOMAIN product1.features \cap DOMAIN product2.features)
                            \cap DOMAIN FeatureWeights :
                    FeatureCompared(product1, product2, f) }
            feature_count == Cardinality(compared)
            feature_sum ==
                SumOver([f \in compared |->
                            FeatureSimilarity(product1, product2, f) * FeatureWeights[f]],
                        compared)
            feature_similarity ==
                IF feature_count > 0 THEN (feature_sum * 7) \div feature_count ELSE 0
        IN  title_similarity * 10 + feature_similarity

\* calculate_similarity_score of every pair of the modelled products, by
\* identifier (identifiers are unique), computed once
ShopScores ==
    LET ShopProduct(id) ==
            AdmittedProducts[CHOOSE i \in DOMAIN AdmittedProducts :
                                 AdmittedProducts[i].id = id]
        ids == { AdmittedProducts[i].id : i \in DOMAIN AdmittedProducts }
    IN  [id1 \in ids |->
            [id2 \in ids |-> CalculateSimilarityScore(ShopProduct(id1), ShopProduct(id2))]]

\* self.calculate_similarity_score(product1, product2) as the engine's
\* methods call it
SimilarityScore(product1, product2) == ShopScores[product1.id][product2.id]

\* the loop of find_similar_products: the (other_product, similarity) pairs
\* of the products with another identifier and a similarity above 0
RECURSIVE Similarities(_, _)
Similarities(self_products, product) ==
    IF self_products = <<>> THEN <<>>
    ELSE LET other_product == Head(self_products)
             similarity == SimilarityScore(product, other_product)
             rest == Similarities(Tail(self_products), product)
         IN  IF other_product.id # product.id /\ similarity > 0
             THEN << <<other_product, similarity>> >> \o rest
             ELSE rest

\* key=lambda x: x[1] of a list of (product, similarity) pairs
SimilarityKeys(pairs) == [i \in DOMAIN pairs |-> pairs[i][2]]

\* find_similar_products that sorts by ascending similarity
FindSimilarProductsAscending(self_products, product, limit) ==
    LET similarities == Similarities(self_products, product)
    IN  Slice(SortBy(similarities, SimilarityKeys(similarities), FALSE), limit)

\* find_similar_products(product, limit) of an engine holding self_products
FindSimilarProducts(self_products, product, limit) ==
    LET similarities == Similarities(self_products, product)
    IN  Slice(SortBy(similarities, SimilarityKeys(similarities), TRUE), limit)

\* [p for p, _ in pairs]
ProductsOf(pairs) == [i \in DOMAIN pairs |-> pairs[i][1]]

\* identifiers asked for: products of the catalog and one that no product has
RequestedIds ==
    {"laptops_00", "laptops_04", "laptops_08", "laptops_14", "phones_00", "laptops_ff"}

\* values of the limit parameter of /recommendations/similar
SimilarLimits == {-1, 0, 2, 20}

\* get_similar_products whose engine sorts its own collection by similarity
GetSimilarProductsInPlace(product_id, limit) ==
    /\ call' = [endpoint |-> "similar", product_id |-> product_id, limit |-> limit]
    /\ IF \E i \in DOMAIN catalog : catalog[i].id = product_id
       THEN LET similar_products ==
                    FindSimilarProducts(catalog, ProductById(product_id), limit)
            IN  /\ result' = [status_code |-> 200,
                              similar |-> similar_products,
                              products |-> ProductsOf(similar_products)]
                /\ catalog' =
                       SortBy(catalog,
                              [k \in DOMAIN catalog |->
                                  SimilarityScore(ProductById(product_id), catalog[k])],
                              TRUE)
       ELSE /\ result' = [status_code |-> 404]
            /\ catalog' = catalog
    /\ UNCHANGED <<base_delivery_cost, min_profit_percent, negotiation_history,
                   threads>>

\* get_similar_products(product_id, limit)
GetSimilarProducts(product_id, limit) ==
    /\ call' = [endpoint |-> "similar", product_id |-> product_id, limit |-> limit]
    /\ IF \E i \in DOMAIN catalog : catalog[i].id = product_id
       THEN LET similar_products ==
                    FindSimilarProducts(catalog, ProductById(product_id), limit)
            IN  result' = [status_code |-> 200,
                           similar |-> similar_products,
                           products |-> ProductsOf(similar_products)]
       ELSE result' = [status_code |-> 404]
    /\ UNCHANGED <<base_delivery_cost, min_profit_percent, negotiation_history,
                   catalog, threads>>

\* str.isdigit on the characters that occur in feature values
Digits == {"0", "1", "2", "3", "4", "5", "6", "7", "8", "9"}

\* ''.join(filter(str.isdigit, value))
DigitsOnly(value) == SelectSeq(value, LAMBDA c : c \in Digits)

\* int(digits) of a non-empty string of digits
RECURSIVE ToInt(_)
ToInt(digits) ==
    IF digits = <<>> THEN 0
    ELSE LET last == digits[Len(digits)]
             value == CHOOSE d \in 0 .. 9 : ToString(d) = last
         IN  10 * ToInt(SubSeq(digits, 1, Len(digits) - 1)) + value

\* the "ram" and "storage" blocks of find_better_alternatives: both products
\* have the feature, both values give a number (int('') raises ValueError,
\* which the block swallows) and the other product's number is larger
LargerNumber(product, other_product, feature_name) ==
    /\ feature_name \in DOMAIN product.features
    /\ feature_name \in DOMAIN other_product.features
    /\ DigitsOnly(product.features[feature_name]) # <<>>
    /\ DigitsOnly(other_product.features[feature_name]) # <<>>
    /\ ToInt(DigitsOnly(other_product.features[feature_name]))
           > ToInt(DigitsOnly(product.features[feature_name]))

\* is_better after the four checks
IsBetter(product, other_product) ==
    \/ "rating" \notin DOMAIN product /\ "rating" \in DOMAIN other_product
    \/ /\ "rating" \in DOMAIN product
       /\ "rating" \in DOMAIN other_product
       /\ other_product.rating > product.rating
    \/ 2 * other_product.reviews > 3 * product.reviews
    \/ LargerNumber(product, other_product, "ram")
    \/ LargerNumber(product, other_product, "storage")

\* find_better_alternatives that looks at every similar product
FindBetterAlternativesOfAll(self_products, product, limit) ==
    LET similar_products == Similarities(self_products, product)
        better_alternatives ==
            SelectSeq(similar_products, LAMBDA x : IsBetter(product, x[1]))
    IN  Slice(SortBy(better_alternatives, SimilarityKeys(better_alternatives), TRUE),
              limit)

\* find_better_alternatives(product, limit) of an engine holding self_products
FindBetterAlternatives(self_products, product, limit) ==
    LET similar_products == FindSimilarProducts(self_products, product, 10)
        better_alternatives ==
            SelectSeq(similar_products, LAMBDA x : IsBetter(product, x[1]))
    IN  Slice(SortBy(better_alternatives, SimilarityKeys(better_alternatives), TRUE),
              limit)

\* find_better_alternatives raises TypeError: the comparison of the review
\* counts is reached for a similar product while one of the two counts is None
FindBetterAlternativesRaises(self_products, product) ==
    \E x \in Elements(FindSimilarProducts(self_products, product, 10)) :
        \/ "reviews" \notin DOMAIN product
        \/ "reviews" \notin DOMAIN x[1]

\* values of the limit parameter of /recommendations/better
BetterLimits == {-1, 0, 3, 20}

\* get_better_alternatives(product_id, limit)
GetBetterAlternatives(product_id, limit) ==
    /\ call' = [endpoint |-> "better", product_id |-> product_id, limit |-> limit]
    /\ IF \E i \in DOMAIN catalog : catalog[i].id = product_id
       THEN IF FindBetterAlternativesRaises(catalog, ProductById(product_id))
            THEN result' = [status_code |-> 500]
            ELSE LET better_alternatives ==
                         FindBetterAlternatives(catalog, ProductById(product_id), limit)
                 IN  result' = [status_code |-> 200,
                                better |-> better_alternatives,
                                products |-> ProductsOf(better_alternatives)]
       ELSE result' = [status_code |-> 404]
    /\ UNCHANGED <<base_delivery_cost, min_profit_percent, negotiation_history,
                   catalog, threads>>

\* the server after start-up, with the catalog of the shop
InitCatalog ==
    /\ base_delivery_cost = DefaultBaseDeliveryCost
    /\ min_profit_percent = DefaultMinProfitPercent
    /\ negotiation_history = <<>>
    /\ call = [endpoint |-> "none"]
    /\ result = [status_code |-> 0]
    /\ catalog \in Catalogs
    /\ threads = NoRequests

NextCatalog ==
    \/ \E query \in ProductQueries : GetProducts(query)
    \/ \E product_id \in RequestedIds : \E limit \in SimilarLimits :
          GetSimilarProducts(product_id, limit)
    \/ \E product_id \in RequestedIds : \E limit \in BetterLimits :
          GetBetterAlternatives(product_id, limit)

SpecCatalog == InitCatalog /\ [][NextCatalog]_vars

----------------------------------------------------------------------------
(* C17: the catalog of the recommendation engine *)

\* C17: after the recommendation engine is constructed, the product
\* collection it holds never mutates: no request served by the HTTP layer
\* (GET /products with its sorting included) changes the members or the
\* order of that collection.
C17_CatalogFixed == [][catalog' = catalog]_vars

----------------------------------------------------------------------------
(* Vocabulary of the recommendation claims *)

\* the latest request is a served /recommendations/similar request, made
\* by the step
SimilarServed ==
    /\ call'.endpoint = "similar"
    /\ result'.status_code = 200

\* positions in the engine's collection of the products find_similar has to
\* consider for a product: another identifier and a score above 0
Candidates(product) ==
    { i \in DOMAIN catalog :
        /\ catalog[i].id # product.id
        /\ SimilarityScore(product, catalog[i]) > 0 }

\* position of a returned product in the engine's collection
PositionOf(other_product) ==
    CHOOSE i \in DOMAIN catalog : catalog[i].id = other_product.id

----------------------------------------------------------------------------
(* C18: what find_similar never returns *)

C18_Step ==
    /\ SimilarServed =>
          LET product == ProductById(call'.product_id)
              returned == result'.similar
          IN  \A k \in DOMAIN returned :
                 /\ returned[k][1].id # product.id
                 /\ returned[k][1].category = product.category
                 /\ returned[k][2] > 0
                 /\ returned[k][2] = SimilarityScore(product, returned[k][1])
    /\ \A i, j \in DOMAIN catalog :
          catalog[i].category # catalog[j].category =>
              CalculateSimilarityScore(catalog[i], catalog[j]) = 0

\* C18: for every catalog with unique identifiers, every product and every
\* limit, find_similar never returns the query product itself and never
\* returns a product of a different category; every returned pair has a
\* score strictly greater than 0, and the score of any two products of
\* different categories is 0.
C18_SimilarExcludes == [][C18_Step]_vars

\* every similar product of a product whose title and features another
\* category's product shares
C18_Witness ==
    /\ call.endpoint = "similar"
    /\ result.status_code = 200
    /\ call.limit = 20
    /\ Len(result.similar) = 13
    /\ \E i \in DOMAIN catalog :
          /\ catalog[i].category # ProductById(call.product_id).category
          /\ catalog[i].title = ProductById(call.product_id).title
          /\ catalog[i].features = ProductById(call.product_id).features

----------------------------------------------------------------------------
(* C19: the order and the number of the similar products *)

\* the pairs "returned" for "product" and "limit" are the stated ones;
\* "at" gives the position of each returned product in the collection
C19_Returned(product, limit, candidates, at, returned) ==
    /\ \A k \in DOMAIN returned :
          /\ at[k] \in candidates
          /\ returned[k] = <<catalog[at[k]], SimilarityScore(product, catalog[at[k]])>>
    /\ \A k, l \in DOMAIN returned :
          k < l => /\ returned[k][2] >= returned[l][2]
                   /\ at[k] # at[l]
                   /\ returned[k][2] = returned[l][2] => at[k] < at[l]
    /\ limit >= 0 =>
          /\ Len(returned) <= limit
          /\ Len(returned) = IF Cardinality(candidates) < limit
                             THEN Cardinality(candidates) ELSE limit
    /\ \A i \in candidates :
          (\A k \in DOMAIN returned : at[k] # i) =>
              \A k \in DOMAIN returned :
                  SimilarityScore(product, catalog[i]) <= returned[k][2]

C19_Step ==
    SimilarServed =>
        \A candidates \in { Candidates(ProductById(call'.product_id)) } :
        \A at \in { [k \in DOMAIN result'.similar |-> PositionOf(result'.similar[k][1])] } :
            C19_Returned(ProductById(call'.product_id), call'.limit, candidates, at,
                         result'.similar)

\* C19: find_similar returns the other products with score > 0 in
\* non-increasing score order, at most limit of them for limit >= 0, and
\* these are the highest-scoring ones (no omitted product has a higher score
\* than a returned one); products with equal scores appear in the order of
\* their first appearance in the catalog collection.
C19_SimilarOrder == [][C19_Step]_vars

\* two products returned with equal scores and a third equal one cut off by
\* the limit
C19_Witness ==
    /\ call.endpoint = "similar"
    /\ result.status_code = 200
    /\ call.limit = 2
    /\ Len(result.similar) = 2
    /\ result.similar[1][2] = result.similar[2][2]
    /\ \E i \in Candidates(ProductById(call.product_id)) :
          /\ SimilarityScore(ProductById(call.product_id), catalog[i]) = result.similar[2][2]
          /\ i > PositionOf(result.similar[2][1])

----------------------------------------------------------------------------
(* C20: better alternatives *)

\* the number a feature value stands for once everything but its digits is
\* dropped; a value without digits stands for no number
HasNumber(product, feature_name) ==
    /\ feature_name \in DOMAIN product.features
    /\ \E i \in DOMAIN product.features[feature_name] :
          product.features[feature_name][i] \in Digits

NumberOf(product, feature_name) == ToInt(DigitsOnly(product.features[feature_name]))

\* "better by at least one criterion", as the specification states it
StatedBetter(product, other_product) ==
    \/ /\ "rating" \in DOMAIN other_product
       /\ "rating" \in DOMAIN product => other_product.rating > product.rating
    \/ other_product.reviews * 10 > product.reviews * 15
    \/ \E feature_name \in {"ram", "storage"} :
          /\ HasNumber(product, feature_name)
          /\ HasNumber(other_product, feature_name)
          /\ NumberOf(other_product, feature_name) > NumberOf(product, feature_name)

\* the better alternatives "returned" for "product" and "limit" are the
\* stated ones, given the top ten similar products "top"
C20_Returned(product, limit, top, returned) ==
    \A better \in { { k \in DOMAIN top : StatedBetter(product, top[k][1]) } } :
    \A rank \in { [n \in DOMAIN returned |-> CHOOSE k \in DOMAIN top : top[k] = returned[n]] } :
        /\ Len(top) <= 10
        /\ \A n \in DOMAIN returned :
              /\ rank[n] \in better
              /\ \A k \in better : k < rank[n] => \E m \in 1 .. (n - 1) : rank[m] = k
        /\ \A n, m \in DOMAIN returned :
              n < m => /\ returned[n][2] >= returned[m][2]
                       /\ rank[n] < rank[m]
        /\ limit >= 0 =>
              Len(returned) = IF Cardinality(better) < limit
                              THEN Cardinality(better) ELSE limit
        /\ \A i \in Candidates(product) :
              (\A k \in DOMAIN top : top[k][1].id # catalog[i].id) =>
                  \A n \in DOMAIN returned : returned[n][1].id # catalog[i].id

C20_Step ==
    (call'.endpoint = "better" /\ result'.status_code = 200) =>
        \A top \in { FindSimilarProducts(catalog, ProductById(call'.product_id), 10) } :
            /\ \A n \in DOMAIN result'.better : \E k \in DOMAIN top : top[k] = result'.better[n]
            /\ C20_Returned(ProductById(call'.product_id), call'.limit, top, result'.better)

\* C20: find_better_alternatives returns, in non-increasing score order and
\* truncated to limit, exactly those products among the top 10 of
\* find_similar(product) that are better by at least one criterion: a
\* higher rating (or a rating where the reference has none), a review count
\* above 1.5 times the reference's, or a strictly larger digits-only number
\* in the "ram" or in the "storage" feature; a value that cannot be parsed
\* makes that one criterion not hold and nothing else.  A better product
\* ranked 11th or lower in similarity is never returned.
C20_BetterAlternatives == [][C20_Step]_vars

\* all better alternatives of a product that has a better product ranked
\* below the tenth and, among its top ten, a product whose storage value has
\* no digits and that is not better
C20_Witness ==
    /\ call.endpoint = "better"
    /\ result.status_code = 200
    /\ call.limit = 20
    /\ Len(result.better) = 5
    /\ LET product == ProductById(call.product_id)
           top == FindSimilarProducts(catalog, product, 10)
       IN  /\ \E i \in Candidates(product) :
                 /\ StatedBetter(product, catalog[i])
                 /\ \A k \in DOMAIN top : top[k][1].id # catalog[i].id
           /\ \E k \in DOMAIN top :
                 /\ "storage" \in DOMAIN top[k][1].features
                 /\ ~HasNumber(top[k][1], "storage")
                 /\ HasNumber(product, "storage")
                 /\ \A n \in DOMAIN result.better : result.better[n] # top[k]

----------------------------------------------------------------------------
(* src/app/recommender.py: get_personalized_recommendations, and its       *)
(* endpoint POST /recommendations/personalized of src/main.py              *)

\* sum of the similarity of a product against the viewed products, in the
\* order of the list
RECURSIVE AccumulatedScore(_, _)
AccumulatedScore(product, viewed_products) ==
    IF viewed_products = <<>> THEN 0
    ELSE AccumulatedScore(product, SubSeq(viewed_products, 1, Len(viewed_products) - 1))
             + SimilarityScore(product, viewed_products[Len(viewed_products)])

\* scored_products that leaves out the products without any similarity
RECURSIVE ScoredProductsAboveZero(_, _)
ScoredProductsAboveZero(self_products, viewed_products) ==
    IF self_products = <<>> THEN <<>>
    ELSE LET product == Head(self_products)
             rest == ScoredProductsAboveZero(Tail(self_products), viewed_products)
         IN  IF \/ \E i \in DOMAIN viewed_products : viewed_products[i].id = product.id
                \/ AccumulatedScore(product, viewed_products) = 0
             THEN rest
             ELSE << <<product, AccumulatedScore(product, viewed_products)>> >> \o rest

\* scored_products: the (product, accumulated score) pairs of the products
\* that were not viewed, in the order of the collection
RECURSIVE ScoredProducts(_, _)
ScoredProducts(self_products, viewed_products) ==
    IF self_products = <<>> THEN <<>>
    ELSE LET product == Head(self_products)
             rest == ScoredProducts(Tail(self_products), viewed_products)
         IN  IF \E i \in DOMAIN viewed_products : viewed_products[i].id = product.id
             THEN rest
             ELSE << <<product, AccumulatedScore(product, viewed_products)>> >> \o rest

\* get_personalized_recommendations(viewed_products, limit) of an engine
\* holding self_products
PersonalizedRecommendations(self_products, viewed_products, limit) ==
    IF viewed_products = <<>>
    THEN LET rated == SelectSeq(self_products, LAMBDA q : "rating" \in DOMAIN q)
         IN  Slice(SortBy(rated, [i \in DOMAIN rated |-> rated[i].rating], TRUE), limit)
    ELSE LET scored_products == ScoredProducts(self_products, viewed_products)
         IN  ProductsOf(Slice(SortBy(scored_products, SimilarityKeys(scored_products),
                                     TRUE),
                              limit))

\* bodies of POST /recommendations/personalized: the viewed identifiers
ViewedIds ==
    { {}, {"laptops_ff"}, {"laptops_00"}, {"laptops_00", "laptops_04"}, {"phones_00"} }

\* values of the limit parameter of /recommendations/personalized
PersonalizedLimits == {0, 3, 16}

\* get_personalized_recommendations(product_ids, limit) of main.py
GetPersonalizedRecommendations(product_ids, limit) ==
    LET viewed_products == SelectSeq(catalog, LAMBDA q : q.id \in product_ids)
    IN  /\ call' = [endpoint |-> "personalized", product_ids |-> product_ids,
                    limit |-> limit]
        /\ result' = [status_code |-> 200,
                      products |-> PersonalizedRecommendations(catalog, viewed_products,
                                                               limit)]
        /\ UNCHANGED <<base_delivery_cost, min_profit_percent, negotiation_history,
                       catalog, threads>>

NextPersonalized ==
    \/ \E query \in ProductQueries : GetProducts(query)
    \/ \E product_ids \in ViewedIds : \E limit \in PersonalizedLimits :
          GetPersonalizedRecommendations(product_ids, limit)

SpecPersonalized == InitCatalog /\ [][NextPersonalized]_vars

----------------------------------------------------------------------------
(* Claims about get_personalized_recommendations                           *)

\* a step that served POST /recommendations/personalized
PersonalizedServed ==
    /\ call'.endpoint = "personalized"
    /\ result'.status_code = 200

\* positions in the engine's collection of the viewed products of a request
ViewedPositions(product_ids) == { i \in DOMAIN catalog : catalog[i].id \in product_ids }

\* the rating a product is ranked by: one below every rating for a product
\* without a rating
RankedRating(product) == IF "rating" \in DOMAIN product THEN product.rating ELSE -1

\* the stated result for an empty view history: distinct products of the
\* catalog, top-limit of all of them by rating, unrated products last
C21_Returned(limit, at, returned) ==
    /\ \A k \in DOMAIN returned : at[k] \in DOMAIN catalog
    /\ \A k, l \in DOMAIN returned :
          k < l => /\ at[k] # at[l]
                   /\ RankedRating(returned[k]) >= RankedRating(returned[l])
    /\ limit >= 0 =>
          Len(returned) = IF Len(catalog) < limit THEN Len(catalog) ELSE limit
    /\ \A i \in DOMAIN catalog :
          (\A k \in DOMAIN returned : at[k] # i) =>
              \A k \in DOMAIN returned :
                  RankedRating(catalog[i]) <= RankedRating(returned[k])

C21_Step ==
    (PersonalizedServed /\ ViewedPositions(call'.product_ids) = {}) =>
        \A at \in { [k \in DOMAIN result'.products |-> PositionOf(result'.products[k])] } :
            C21_Returned(call'.limit, at, result'.products)

\* C21: with an empty view history personalized_recommendations returns the
\* top-limit products of the catalog by rating descending, the products
\* without a rating ranked after all rated ones, so that an unrated product is
\* returned whenever fewer than limit rated products exist.
C21_UnratedLast == [][C21_Step]_vars

\* accumulated score of the product at position i: the sum of its similarity
\* score against every viewed product
StatedAccumulated(i, viewed) ==
    SumOver([j \in viewed |-> SimilarityScore(catalog[i], catalog[j])], viewed)

\* the stated result for a non-empty view history
C22_Returned(product_ids, limit, viewed, at, returned) ==
    /\ \A k \in DOMAIN returned :
          /\ returned[k].id \notin product_ids
          /\ at[k] \in DOMAIN catalog \ viewed
    /\ \A k, l \in DOMAIN returned :
          k < l => /\ at[k] # at[l]
                   /\ StatedAccumulated(at[k], viewed) >= StatedAccumulated(at[l], viewed)
                   /\ StatedAccumulated(at[k], viewed) = StatedAccumulated(at[l], viewed)
                         => at[k] < at[l]
    /\ limit >= 0 =>
          Len(returned) = IF Len(catalog) - Cardinality(viewed) < limit
                          THEN Len(catalog) - Cardinality(viewed) ELSE limit
    /\ \A i \in DOMAIN catalog \ viewed :
          (\A k \in DOMAIN returned : at[k] # i) =>
              \A k \in DOMAIN returned :
                  StatedAccumulated(i, viewed) <= StatedAccumulated(at[k], viewed)

C22_Step ==
    (PersonalizedServed /\ ViewedPositions(call'.product_ids) # {}) =>
        \A at \in { [k \in DOMAIN result'.products |-> PositionOf(result'.products[k])] } :
            C22_Returned(call'.product_ids, call'.limit,
                         ViewedPositions(call'.product_ids), at, result'.products)

\* C22: with a non-empty view history personalized_recommendations never
\* returns a viewed product and returns the top-limit non-viewed products in
\* non-increasing order of accumulated score (the sum of the similarity score
\* against every viewed product, equal scores in catalog order); non-viewed
\* products with accumulated score 0 are candidates too.
C22_ViewedHistory == [][C22_Step]_vars

\* two viewed products, and a product of accumulated score 0 among the
\* returned ones
C22_Witness ==
    /\ call.endpoint = "personalized"
    /\ result.status_code = 200
    /\ Cardinality(ViewedPositions(call.product_ids)) = 2
    /\ call.limit = 16
    /\ Len(result.products) = 14
    /\ \E k \in DOMAIN result.products :
          StatedAccumulated(PositionOf(result.products[k]),
                            ViewedPositions(call.product_ids)) = 0
    /\ \E k \in DOMAIN result.products :
          StatedAccumulated(PositionOf(result.products[k]),
                            ViewedPositions(call.product_ids)) > 0

----------------------------------------------------------------------------
(* The recommendation engine over products the product model admits        *)

\* a server whose engine was constructed with a list of admitted products,
\* one of them without any optional field
InitAdmitted ==
    /\ base_delivery_cost = DefaultBaseDeliveryCost
    /\ min_profit_percent = DefaultMinProfitPercent
    /\ negotiation_history = <<>>
    /\ call = [endpoint |-> "none"]
    /\ result = [status_code |-> 0]
    /\ catalog \in {AdmittedProducts, Reversed(AdmittedProducts)}
    /\ threads = NoRequests

\* product identifiers requested from the engine over admitted products
AdmittedIds == RequestedIds \cup {"laptops_03", "laptops_15"}

NextAdmitted ==
    \/ \E product_id \in AdmittedIds : \E limit \in SimilarLimits :
          GetSimilarProducts(product_id, limit)
    \/ \E product_id \in AdmittedIds : \E limit \in BetterLimits :
          GetBetterAlternatives(product_id, limit)
    \/ \E product_ids \in ViewedIds \cup {{"laptops_15"}} :
       \E limit \in PersonalizedLimits :
          GetPersonalizedRecommendations(product_ids, limit)

SpecAdmitted == InitAdmitted /\ [][NextAdmitted]_vars

\* C23: none of find_similar, find_better_alternatives and
\* personalized_recommendations raises an error for a product the product
\* model admits, also when its price, rating, review count or features are
\* absent: every call on a known product is answered with a result.
C23_NoErrors ==
    [][call'.endpoint \in {"similar", "better", "personalized"}
          => result'.status_code # 500]_vars

----------------------------------------------------------------------------
(* C24: find_similar is a function of the catalog, the product and the limit *)

C24_Step ==
    SimilarServed =>
        /\ catalog' = catalog
        /\ result'.similar =
               FindSimilarProducts(catalog', ProductById(call'.product_id), call'.limit)

----------------------------------------------------------------------------
(* C25: final_price and the status "accepted" *)

\* C25: in every reachable state a history's final_price is set if and only
\* if its status is "accepted"; an accepted negotiation that is rejected in
\* round 3 or later keeps no final price.
C25_FinalPriceIffAccepted ==
    \A id \in DOMAIN negotiation_history :
        "final_price" \in DOMAIN negotiation_history[id]
            <=> negotiation_history[id].status = "accepted"

----------------------------------------------------------------------------
(* C26: no counter offer after the first round under the default settings *)

\* C26: with base_delivery_cost 5.0 and min_profit_percent 15.0 and a
\* positive price, evaluate_offer never returns "counter" in round 2 or
\* later: the minimum acceptable price is above the accept price of those
\* rounds (85% of the price in round 2, 82% later), so every such offer is
\* accepted or rejected.
C26_NoLateCounter ==
    DefaultConfig =>
        /\ \A price \in PriceGrid :
              price > 0 => MinimumOf(price) * 100 > price * StatedAcceptPercent(2)
        /\ (CallPriced /\ ProductById(call.product_id).price > 0
                /\ call.negotiation_round >= 2) =>
              LET rounds == negotiation_history[call.product_id].negotiation_rounds
                  price == ProductById(call.product_id).price
              IN  /\ result.status \in {"accepted", "rejected"}
                  /\ "counter_offer" \notin DOMAIN rounds[Len(rounds)]
                  /\ rounds[Len(rounds)].min_acceptable * 100
                         > price * StatedAcceptPercent(call.negotiation_round)

\* an offer of round 2 or later that lies between the counter price and the
\* accept price of its round and is rejected for the minimum acceptable price
C26_Witness ==
    /\ DefaultConfig
    /\ CallPriced
    /\ ProductById(call.product_id).price > 0
    /\ call.negotiation_round >= 2
    /\ call.offered_price * 100
           >= ProductById(call.product_id).price * StatedCounterPercent(call.negotiation_round)
    /\ call.offered_price * 100
           < ProductById(call.product_id).price * StatedAcceptPercent(call.negotiation_round)
    /\ result.status = "rejected"

----------------------------------------------------------------------------
(* The engine with offers above the price and with the seller's counter    *)
(* price offered back                                                      *)

\* prices of the negotiated product: 0.04, 100.00 and 400.00
ReofferPrices == {4, 10000, 40000}

\* offers in hundredths of a percent of the price, one of them above it
ReofferBasisPoints == {1000, 7700, 8996, 12000}

\* the counter_offer of the latest round record of a product, if it has one
CounterPrices(product_id) ==
    IF product_id \notin DOMAIN negotiation_history THEN {}
    ELSE LET rounds == negotiation_history[product_id].negotiation_rounds
         IN  IF rounds # <<>> /\ "counter_offer" \in DOMAIN rounds[Len(rounds)]
             THEN {rounds[Len(rounds)].counter_offer}
             ELSE {}

\* offers of a customer who may answer a counter offer with its price
ReofferedPrices(product) ==
    { (product.price * bp) \div 10000 : bp \in ReofferBasisPoints }
        \cup CounterPrices(product.id)

InitReoffer ==
    /\ \E c \in Configs :
          /\ base_delivery_cost = c.base_delivery_cost
          /\ min_profit_percent = c.min_profit_percent
    /\ negotiation_history = <<>>
    /\ call = [product_id |-> "none"]
    /\ result = [status |-> "none"]
    /\ \E x \in ReofferPrices :
          catalog = << [id |-> "tools_0e", category |-> "tools", price |-> x] >>
    /\ threads = NoRequests

NextReoffer ==
    \E i \in DOMAIN catalog : \E o \in ReofferedPrices(catalog[i]) :
        Negotiate(catalog[i].id, o)

SpecReoffer == InitReoffer /\ [][NextReoffer]_vars

----------------------------------------------------------------------------
(* C27: the final price and the original price *)

\* C27 as stated: for every history with status "accepted",
\* final_price <= original_price.
C27_Original ==
    \A id \in DOMAIN negotiation_history :
        negotiation_history[id].status = "accepted" =>
            negotiation_history[id].final_price <= negotiation_history[id].original_price

\* round records of a history whose offer met the accept price of its round
AcceptedRounds(h) ==
    { k \in DOMAIN h.negotiation_rounds :
        h.negotiation_rounds[k].customer_offer * 100
            >= h.original_price * StatedAcceptPercent(h.negotiation_rounds[k].round) }

\* C27 amended: the final_price of an accepted history is the offered price
\* of the latest offer that met the accept price of its round; it is at
\* least that accept price and has no upper bound, so it is above
\* original_price whenever that offer was.
C27_Amended ==
    \A id \in DOMAIN negotiation_history :
        negotiation_history[id].status = "accepted" =>
            \A h \in { negotiation_history[id] } :
                /\ AcceptedRounds(h) # {}
                /\ \E k \in AcceptedRounds(h) :
                      /\ \A l \in AcceptedRounds(h) : l <= k
                      /\ h.final_price = h.negotiation_rounds[k].customer_offer

\* an offer above the price has been accepted
C27_Witness ==
    \E id \in DOMAIN negotiation_history :
        /\ negotiation_history[id].status = "accepted"
        /\ negotiation_history[id].original_price > 0
        /\ negotiation_history[id].final_price > negotiation_history[id].original_price

----------------------------------------------------------------------------
(* C28: the counter price offered back *)

\* the call of a step offers the counter price c that the previous call on
\* the same product returned
CounterPriceOffered ==
    /\ CallPricedNext
    /\ call'.offered_price \in CounterPrices(call'.product_id)

CounterPriceAccepted ==
    /\ result'.status = "accepted"
    /\ result'.final_price = call'.offered_price
    /\ negotiation_history'[call'.product_id].status = "accepted"
    /\ negotiation_history'[call'.product_id].final_price = call'.offered_price

\* C28 as stated: whenever evaluate_offer returns "counter" with
\* counter_price c (delivery cost and profit percent not negative), the next
\* evaluate_offer on the same product with offered_price = c returns
\* "accepted" with final_price = c.
C28_Original == [][CounterPriceOffered => CounterPriceAccepted]_vars

\* C28 amended: the same for a product priced at least 1.00; on a price of a
\* few cents the rounding of the counter offer to the cent can leave it
\* below the accept price of the next round.
C28_Amended ==
    [][(CounterPriceOffered /\ ProductById(call'.product_id).price >= 100)
          => CounterPriceAccepted]_vars

\* a counter price of round 2 or later that was offered back and accepted
C28_Witness ==
    /\ CallPriced
    /\ ProductById(call.product_id).price >= 100
    /\ call.negotiation_round >= 3
    /\ result.status = "accepted"
    /\ LET rounds == negotiation_history[call.product_id].negotiation_rounds
       IN  /\ "counter_offer" \in DOMAIN rounds[Len(rounds) - 1]
           /\ rounds[Len(rounds) - 1].counter_offer = call.offered_price
           /\ rounds[Len(rounds) - 1].counter_offer < ProductById(call.product_id).price

----------------------------------------------------------------------------
(* C29: negotiations of different products are independent *)

\* the result the specification states for offer o in round r on a product,
\* from the product, the offer and the round alone
StatedResult(product, o, r) ==
    \A status \in { StatedDecision(product.price, o, r, StatedMinimum(product.price)) } :
        /\ result'.status = status
        /\ result'.message = GenerateNegotiationResponse(status, o, product.price, r)
        /\ status = "accepted" => result'.final_price = o
        /\ status = "counter" => result'.counter_price = StatedCounterPrice(product.price, o)
        /\ DOMAIN result' =
               {"status", "message"}
                   \cup (IF status = "accepted" THEN {"final_price"} ELSE {})
                   \cup (IF status = "counter" THEN {"counter_price"} ELSE {})

C29_Step ==
    call'.product_id # "none" =>
        /\ \A id \in DOMAIN negotiation_history \ {call'.product_id} :
              /\ id \in DOMAIN negotiation_history'
              /\ negotiation_history'[id] = negotiation_history[id]
        /\ DOMAIN negotiation_history'
               \subseteq DOMAIN negotiation_history \cup {call'.product_id}
        /\ CallPricedNext =>
              StatedResult(ProductById(call'.product_id), call'.offered_price,
                           Len(RoundsBefore(call'.product_id)) + 1)

\* C29: an evaluate_offer call on product A leaves the history of every
\* other product as it was (round records, status, final_price and
\* original_price) and creates no history but A's, and its result is the one
\* determined by A's price, the offered price and the number of rounds
\* recorded for A.
C29_Independent == [][C29_Step]_vars

\* a call on one product in its first round while another product has an
\* accepted negotiation of several rounds
C29_Witness ==
    /\ CallPriced
    /\ call.negotiation_round = 1
    /\ result.status = "counter"
    /\ \E id \in DOMAIN negotiation_history \ {call.product_id} :
          /\ negotiation_history[id].status = "accepted"
          /\ Len(negotiation_history[id].negotiation_rounds) >= 2

----------------------------------------------------------------------------
(* C30: the price named in the message of a counter offer *)

\* C30: in every "counter" result the price that the message proposes to the
\* customer is the amount of the result's counter_price, which is the
\* counter_offer stored in the round record.
C30_MessagePrice ==
    (CallPriced /\ result.status = "counter") =>
        LET rounds == negotiation_history[call.product_id].negotiation_rounds
        IN  /\ result.counter_price = rounds[Len(rounds)].counter_offer
            /\ result.message.counter_price = result.counter_price

====
